---- MODULE Spec2Model ----
(***************************************************************************)
(* Connection registry `Managers` of immuni_analytics/core/managers.py:    *)
(* four optional handles, four guarded accessors, and the asynchronous     *)
(* initialize / teardown pair.  Every await of the two coroutines is a     *)
(* separate step, so that accessors can run while a call is suspended.     *)
(* The external collaborators (BaseManagers hooks, mongoengine.connect,    *)
(* aioredis.create_redis_pool, close, wait_closed) succeed or raise        *)
(* nondeterministically.                                                   *)
(***************************************************************************)
EXTENDS Integers, Sequences, FiniteSets, TLC

\* Bound on the number of initialize/teardown calls made on the registry.
MaxCalls == 3

\* Python's None; real handles are positive object identities.
None == 0

\* Every connect / create_redis_pool returns a new object.
HandleIds == 1..(4 * MaxCalls)

Brokers == {"analytics_redis", "authorization_ios_redis", "authorization_android_redis"}

Fields == {"analytics_mongo"} \cup Brokers

\* Textual order of the steps in initialize and in teardown.
Order == <<"base", "analytics_mongo", "analytics_redis",
           "authorization_ios_redis", "authorization_android_redis">>

Pos(s) == CHOOSE i \in 1..Len(Order) : Order[i] = s

Last == Order[Len(Order)]

NextStep_swapped(s) ==
    IF s = "analytics_redis" THEN "authorization_android_redis"
    ELSE Order[Pos(s) + 1]

NextStep(s) == Order[Pos(s) + 1]

VARIABLES
    handle,            \* the four class attributes _analytics_mongo, ...
    closes,            \* number of close() calls each handle object received
    nextId,            \* identity of the next object a connect returns
    pc,                \* <<phase, step>> of the running coroutine
    initialize_mongo,  \* argument of the running / last initialize
    inProgress,        \* awaited connection operations in flight
    log,               \* events of the running / last call, in order
    snapshot,          \* handle and closes at the start of that call
    fault,             \* a collaborator raised during that call
    result,            \* outcome of the last finished call
    calls,             \* calls made so far, per method
    assigned,          \* number of assignments to each attribute
    lastAccess         \* last accessor read since that call began

vars == <<handle, closes, nextId, pc, initialize_mongo, inProgress, log,
          snapshot, fault, result, calls, assigned, lastAccess>>

Idle == <<"idle", "-">>

NoResult == [op |-> "none", raised |-> "none", at |-> "-"]

NoAccess == [name |-> "-", raised |-> "none", value |-> None,
             phase |-> "-", after |-> NoResult]

Init ==
    /\ handle = [f \in Fields |-> None]
    /\ closes = [h \in HandleIds |-> 0]
    /\ nextId = 1
    /\ pc = Idle
    /\ initialize_mongo = FALSE
    /\ inProgress = {}
    /\ log = <<>>
    /\ snapshot = [handle |-> handle, closes |-> closes]
    /\ fault = FALSE
    /\ result = NoResult
    /\ calls = [initialize |-> 0, teardown |-> 0]
    /\ assigned = [f \in Fields |-> 0]
    /\ lastAccess = NoAccess

----------------------------------------------------------------------------
\* Accessors (properties analytics_mongo, analytics_redis, ...)

accessor_unguarded(f) == [raised |-> "none", value |-> handle[f]]

accessor(f) ==
    IF handle[f] = None
    THEN [raised |-> "RuntimeError", value |-> None]
    ELSE [raised |-> "none", value |-> handle[f]]

Access(f) ==
    /\ lastAccess' = [name |-> f, raised |-> accessor(f).raised,
                      value |-> accessor(f).value,
                      phase |-> pc[1], after |-> result]
    /\ UNCHANGED <<handle, closes, nextId, pc, initialize_mongo, inProgress,
                   log, snapshot, fault, result, calls, assigned>>

----------------------------------------------------------------------------
\* Outcomes of a coroutine

\* The exception of a collaborator propagates out of the coroutine.
Raise(op, exc, step) ==
    /\ pc' = Idle
    /\ inProgress' = {}
    /\ fault' = TRUE
    /\ result' = [op |-> op, raised |-> exc, at |-> step]

Return(op) ==
    /\ pc' = Idle
    /\ inProgress' = {}
    /\ result' = [op |-> op, raised |-> "none", at |-> "-"]
    /\ UNCHANGED fault

\* Control moves on to the statement of the next step, or the call returns.
Advance(op, phase, s) ==
    IF s = Last
    THEN Return(op)
    ELSE /\ pc' = <<phase, NextStep(s)>>
         /\ inProgress' = {}
         /\ UNCHANGED <<fault, result>>

Store_copyPaste(f) ==
    LET g == IF f = "authorization_ios_redis" THEN "analytics_redis" ELSE f
    IN  /\ handle' = [handle EXCEPT ![g] = nextId]
        /\ nextId' = nextId + 1
        /\ assigned' = [assigned EXCEPT ![g] = @ + 1]

\* self._<field> = <new object>
Store(f) ==
    /\ handle' = [handle EXCEPT ![f] = nextId]
    /\ nextId' = nextId + 1
    /\ assigned' = [assigned EXCEPT ![f] = @ + 1]

----------------------------------------------------------------------------
\* initialize

CallInitialize(flag) ==
    /\ pc = Idle
    /\ calls.initialize + calls.teardown < MaxCalls
    /\ calls' = [calls EXCEPT !.initialize = @ + 1]
    /\ initialize_mongo' = flag
    /\ snapshot' = [handle |-> handle, closes |-> closes]
    /\ fault' = FALSE
    /\ log' = << <<"await", "base">> >>
    /\ inProgress' = {"base"}
    /\ pc' = <<"init_wait", "base">>
    /\ lastAccess' = NoAccess
    /\ UNCHANGED <<handle, closes, nextId, result, assigned>>

BaseInitializeDone(ok) ==
    /\ pc = <<"init_wait", "base">>
    /\ IF ok
       THEN /\ log' = Append(log, <<"done", "base">>)
            /\ Advance("initialize", "init", "base")
       ELSE /\ Raise("initialize", "HookError", "base")
            /\ UNCHANGED log
    /\ UNCHANGED <<handle, closes, nextId, initialize_mongo, snapshot, calls,
                   assigned, lastAccess>>

ConnectMongo_always(ok) ==
    /\ pc = <<"init", "analytics_mongo">>
    /\ IF ok
       THEN /\ Store("analytics_mongo")
            /\ log' = log \o << <<"connect", "analytics_mongo">>,
                                <<"stored", "analytics_mongo">> >>
            /\ Advance("initialize", "init", "analytics_mongo")
       ELSE /\ log' = Append(log, <<"connect", "analytics_mongo">>)
            /\ Raise("initialize", "ConnectError", "analytics_mongo")
            /\ UNCHANGED <<handle, nextId, assigned>>
    /\ UNCHANGED <<closes, initialize_mongo, snapshot, calls, lastAccess>>

\* mongoengine.connect is synchronous: called and stored in one step.
ConnectMongo(ok) ==
    /\ pc = <<"init", "analytics_mongo">>
    /\ IF initialize_mongo
       THEN IF ok
            THEN /\ Store("analytics_mongo")
                 /\ log' = log \o << <<"connect", "analytics_mongo">>,
                                     <<"stored", "analytics_mongo">> >>
                 /\ Advance("initialize", "init", "analytics_mongo")
            ELSE /\ log' = Append(log, <<"connect", "analytics_mongo">>)
                 /\ Raise("initialize", "ConnectError", "analytics_mongo")
                 /\ UNCHANGED <<handle, nextId, assigned>>
       ELSE /\ ok
            /\ Advance("initialize", "init", "analytics_mongo")
            /\ UNCHANGED <<handle, nextId, assigned, log>>
    /\ UNCHANGED <<closes, initialize_mongo, snapshot, calls, lastAccess>>

CreatePoolDone_swallow(f, ok) ==
    /\ f \in Brokers
    /\ pc = <<"init_wait", f>>
    /\ IF ok
       THEN /\ Store(f)
            /\ log' = Append(log, <<"stored", f>>)
       ELSE UNCHANGED <<handle, nextId, assigned, log>>
    /\ IF f = Last
       THEN /\ pc' = Idle
            /\ result' = [op |-> "initialize", raised |-> "none", at |-> "-"]
       ELSE /\ pc' = <<"init", NextStep(f)>>
            /\ UNCHANGED result
    /\ inProgress' = {}
    /\ fault' = (fault \/ ~ok)
    /\ UNCHANGED <<closes, initialize_mongo, snapshot, calls, lastAccess>>

\* aioredis.create_redis_pool(...) is called and the coroutine suspends.
CreatePoolStart(f) ==
    /\ f \in Brokers
    /\ pc = <<"init", f>>
    /\ log' = Append(log, <<"connect", f>>)
    /\ inProgress' = inProgress \cup {f}
    /\ pc' = <<"init_wait", f>>
    /\ UNCHANGED <<handle, closes, nextId, initialize_mongo, snapshot, fault,
                   result, calls, assigned, lastAccess>>

\* The awaited pool creation completes: the result is stored, or it raises.
CreatePoolDone(f, ok) ==
    /\ f \in Brokers
    /\ pc = <<"init_wait", f>>
    /\ IF ok
       THEN /\ Store(f)
            /\ log' = Append(log, <<"stored", f>>)
            /\ Advance("initialize", "init", f)
       ELSE /\ Raise("initialize", "ConnectError", f)
            /\ UNCHANGED <<handle, nextId, assigned, log>>
    /\ UNCHANGED <<closes, initialize_mongo, snapshot, calls, lastAccess>>

----------------------------------------------------------------------------
\* teardown

CallTeardown ==
    /\ pc = Idle
    /\ calls.initialize + calls.teardown < MaxCalls
    /\ calls' = [calls EXCEPT !.teardown = @ + 1]
    /\ snapshot' = [handle |-> handle, closes |-> closes]
    /\ fault' = FALSE
    /\ log' = << <<"await", "base">> >>
    /\ inProgress' = {}
    /\ pc' = <<"td_wait", "base">>
    /\ lastAccess' = NoAccess
    /\ UNCHANGED <<handle, closes, nextId, initialize_mongo, result, assigned>>

BaseTeardownDone(ok) ==
    /\ pc = <<"td_wait", "base">>
    /\ IF ok
       THEN /\ log' = Append(log, <<"done", "base">>)
            /\ Advance("teardown", "td", "base")
       ELSE /\ Raise("teardown", "HookError", "base")
            /\ UNCHANGED log
    /\ UNCHANGED <<handle, closes, nextId, initialize_mongo, snapshot, calls,
                   assigned, lastAccess>>

CloseMongo_unchecked(ok) ==
    /\ pc = <<"td", "analytics_mongo">>
    /\ IF handle["analytics_mongo"] # None
       THEN /\ closes' = [closes EXCEPT ![handle["analytics_mongo"]] = @ + 1]
            /\ log' = Append(log, <<"close", "analytics_mongo">>)
            /\ IF ok
               THEN Advance("teardown", "td", "analytics_mongo")
               ELSE Raise("teardown", "CloseError", "analytics_mongo")
       ELSE /\ ok
            /\ pc' = Idle
            /\ inProgress' = {}
            /\ result' = [op |-> "teardown", raised |-> "AttributeError",
                          at |-> "analytics_mongo"]
            /\ UNCHANGED <<closes, log, fault>>
    /\ UNCHANGED <<handle, nextId, initialize_mongo, snapshot, calls, assigned,
                   lastAccess>>

CloseMongo_skipped(ok) ==
    /\ pc = <<"td", "analytics_mongo">>
    /\ ok
    /\ Advance("teardown", "td", "analytics_mongo")
    /\ UNCHANGED <<closes, log>>
    /\ UNCHANGED <<handle, nextId, initialize_mongo, snapshot, calls, assigned,
                   lastAccess>>

\* if self._analytics_mongo is not None: self._analytics_mongo.close()
CloseMongo(ok) ==
    /\ pc = <<"td", "analytics_mongo">>
    /\ IF handle["analytics_mongo"] # None
       THEN /\ closes' = [closes EXCEPT ![handle["analytics_mongo"]] = @ + 1]
            /\ log' = Append(log, <<"close", "analytics_mongo">>)
            /\ IF ok
               THEN Advance("teardown", "td", "analytics_mongo")
               ELSE Raise("teardown", "CloseError", "analytics_mongo")
       ELSE /\ ok
            /\ Advance("teardown", "td", "analytics_mongo")
            /\ UNCHANGED <<closes, log>>
    /\ UNCHANGED <<handle, nextId, initialize_mongo, snapshot, calls, assigned,
                   lastAccess>>

ClosePool_nowait(f, ok) ==
    /\ f \in Brokers
    /\ pc = <<"td", f>>
    /\ IF handle[f] # None
       THEN /\ closes' = [closes EXCEPT ![handle[f]] = @ + 1]
            /\ log' = Append(log, <<"close", f>>)
            /\ IF ok
               THEN Advance("teardown", "td", f)
               ELSE Raise("teardown", "CloseError", f)
       ELSE /\ ok
            /\ Advance("teardown", "td", f)
            /\ UNCHANGED <<closes, log>>
    /\ UNCHANGED <<handle, nextId, initialize_mongo, snapshot, calls, assigned,
                   lastAccess>>

\* if pool is not None: pool.close(); await pool.wait_closed()
ClosePool(f, ok) ==
    /\ f \in Brokers
    /\ pc = <<"td", f>>
    /\ IF handle[f] # None
       THEN /\ closes' = [closes EXCEPT ![handle[f]] = @ + 1]
            /\ IF ok
               THEN /\ log' = log \o << <<"close", f>>, <<"wait_closed", f>> >>
                    /\ pc' = <<"td_wait", f>>
                    /\ UNCHANGED <<inProgress, fault, result>>
               ELSE /\ log' = Append(log, <<"close", f>>)
                    /\ Raise("teardown", "CloseError", f)
       ELSE /\ ok
            /\ Advance("teardown", "td", f)
            /\ UNCHANGED <<closes, log>>
    /\ UNCHANGED <<handle, nextId, initialize_mongo, snapshot, calls, assigned,
                   lastAccess>>

WaitClosedDone_clearing(f, ok) ==
    /\ f \in Brokers
    /\ pc = <<"td_wait", f>>
    /\ IF ok
       THEN /\ log' = Append(log, <<"closed", f>>)
            /\ handle' = [handle EXCEPT ![f] = None]
            /\ Advance("teardown", "td", f)
       ELSE /\ Raise("teardown", "CloseError", f)
            /\ UNCHANGED <<log, handle>>
    /\ UNCHANGED <<closes, nextId, initialize_mongo, snapshot, calls,
                   assigned, lastAccess>>

WaitClosedDone_swallow(f, ok) ==
    /\ f \in Brokers
    /\ pc = <<"td_wait", f>>
    /\ IF ok
       THEN log' = Append(log, <<"closed", f>>)
       ELSE UNCHANGED log
    /\ IF f = Last
       THEN /\ pc' = Idle
            /\ inProgress' = {}
            /\ fault' = (fault \/ ~ok)
            /\ result' = [op |-> "teardown", raised |-> "none", at |-> "-"]
       ELSE /\ pc' = <<"td", NextStep(f)>>
            /\ inProgress' = {}
            /\ fault' = (fault \/ ~ok)
            /\ UNCHANGED result
    /\ UNCHANGED <<handle, closes, nextId, initialize_mongo, snapshot, calls,
                   assigned, lastAccess>>

\* The awaited wait_closed() confirms closure, or raises.
WaitClosedDone(f, ok) ==
    /\ f \in Brokers
    /\ pc = <<"td_wait", f>>
    /\ IF ok
       THEN /\ log' = Append(log, <<"closed", f>>)
            /\ Advance("teardown", "td", f)
       ELSE /\ Raise("teardown", "CloseError", f)
            /\ UNCHANGED log
    /\ UNCHANGED <<handle, closes, nextId, initialize_mongo, snapshot, calls,
                   assigned, lastAccess>>

----------------------------------------------------------------------------
Next ==
    \/ \E f \in Fields : Access(f)
    \/ \E flag \in BOOLEAN : CallInitialize(flag)
    \/ \E ok \in BOOLEAN : BaseInitializeDone(ok)
    \/ \E ok \in BOOLEAN : ConnectMongo(ok)
    \/ \E f \in Brokers : CreatePoolStart(f)
    \/ \E f \in Brokers, ok \in BOOLEAN : CreatePoolDone(f, ok)
    \/ CallTeardown
    \/ \E ok \in BOOLEAN : BaseTeardownDone(ok)
    \/ \E ok \in BOOLEAN : CloseMongo(ok)
    \/ \E f \in Brokers, ok \in BOOLEAN : ClosePool(f, ok)
    \/ \E f \in Brokers, ok \in BOOLEAN : WaitClosedDone(f, ok)

Spec == Init /\ [][Next]_vars

----------------------------------------------------------------------------
\* Vocabulary of the properties

Range(q) == {q[i] : i \in 1..Len(q)}

IsPrefix(p, q) == Len(p) <= Len(q) /\ \A i \in 1..Len(p) : p[i] = q[i]

Before(f, g) == Pos(f) < Pos(g)

\* The method the log and the snapshot belong to.
LogOp ==
    IF pc = Idle THEN result.op
    ELSE IF pc[1] \in {"init", "init_wait"} THEN "initialize" ELSE "teardown"

Finished(op) == pc = Idle /\ result.op = op

StoredThisCall(f) == handle[f] # None /\ handle[f] # snapshot.handle[f]

\* close() calls the object held in field f received during this call
ClosesThisCall(f) ==
    IF handle[f] = None THEN 0
    ELSE closes[handle[f]] - snapshot.closes[handle[f]]

ExpectedInit(flag) ==
    << <<"await", "base">>, <<"done", "base">> >>
    \o (IF flag THEN << <<"connect", "analytics_mongo">>,
                        <<"stored", "analytics_mongo">> >> ELSE <<>>)
    \o << <<"connect", "analytics_redis">>,
          <<"stored", "analytics_redis">>,
          <<"connect", "authorization_ios_redis">>,
          <<"stored", "authorization_ios_redis">>,
          <<"connect", "authorization_android_redis">>,
          <<"stored", "authorization_android_redis">> >>

PoolCloseEvents(h, f) ==
    IF h[f] # None
    THEN << <<"close", f>>, <<"wait_closed", f>>, <<"closed", f>> >>
    ELSE <<>>

ExpectedTeardown(h) ==
    << <<"await", "base">>, <<"done", "base">> >>
    \o (IF h["analytics_mongo"] # None
        THEN << <<"close", "analytics_mongo">> >> ELSE <<>>)
    \o PoolCloseEvents(h, "analytics_redis")
    \o PoolCloseEvents(h, "authorization_ios_redis")
    \o PoolCloseEvents(h, "authorization_android_redis")

----------------------------------------------------------------------------
\* C1: an accessor whose handle is absent (in particular one that initialize
\* has not stored yet) fails with the uninitialized-access error, and no
\* accessor ever returns None.
C1_AccessorFailsWhenAbsent ==
    /\ \A f \in Fields :
          /\ handle[f] = None => accessor(f).raised = "RuntimeError"
          /\ assigned[f] = 0 => accessor(f).raised = "RuntimeError"
          /\ accessor(f).raised = "none" => accessor(f).value # None
    /\ lastAccess.name # "-" =>
          /\ lastAccess.raised \in {"none", "RuntimeError"}
          /\ lastAccess.raised = "none" => lastAccess.value # None

C1_Witness ==
    /\ lastAccess.name = "authorization_ios_redis"
    /\ lastAccess.raised = "RuntimeError"
    /\ lastAccess.phase = "init_wait"
    /\ calls.initialize = 1
    /\ handle["analytics_redis"] # None
    /\ handle["authorization_ios_redis"] = None

\* C2: right after the first initialize(initialize_mongo) returns normally,
\* the three broker accessors return handles, and the document-store
\* accessor returns a handle iff initialize_mongo, failing otherwise.
C2_AfterInitialize ==
    (Finished("initialize") /\ result.raised = "none" /\ calls.initialize = 1)
    => /\ \A f \in Brokers :
             accessor(f).raised = "none" /\ accessor(f).value # None
       /\ accessor("analytics_mongo").raised = "none" <=> initialize_mongo
       /\ ~initialize_mongo =>
             accessor("analytics_mongo").raised = "RuntimeError"
       /\ initialize_mongo => accessor("analytics_mongo").value # None

C2_Witness ==
    /\ Finished("initialize") /\ result.raised = "none"
    /\ calls.initialize = 1
    /\ ~initialize_mongo
    /\ lastAccess.name = "analytics_mongo"
    /\ lastAccess.raised = "RuntimeError"
    /\ lastAccess.after.op = "initialize"
    /\ lastAccess.phase = "idle"

\* C3: one teardown after one successful initialize(True), with no failing
\* collaborator, returns normally and each of the four handles has received
\* exactly one close call.
C3_TeardownClosesEachOnce ==
    (/\ Finished("teardown")
     /\ calls.initialize = 1 /\ calls.teardown = 1
     /\ \A f \in Fields : snapshot.handle[f] # None
     /\ ~fault)
    => /\ result.raised = "none"
       /\ \A f \in Fields : handle[f] # None /\ closes[handle[f]] = 1

C3_Witness ==
    /\ Finished("teardown") /\ result.raised = "none" /\ ~fault
    /\ calls.initialize = 1 /\ calls.teardown = 1
    /\ \A f \in Fields : handle[f] # None /\ closes[handle[f]] = 1

\* C4: teardown never raises because a handle is absent; when no collaborator
\* fails it returns normally having closed exactly the handles that were
\* present, once each, and no close is ever issued for an absent handle.
C4_TeardownToleratesAbsent ==
    /\ result.raised # "AttributeError"
    /\ LogOp = "teardown" =>
          \A f \in Fields : <<"close", f>> \in Range(log) => handle[f] # None
    /\ (Finished("teardown") /\ ~fault) =>
          /\ result.raised = "none"
          /\ \A f \in Fields :
                /\ handle[f] # None => ClosesThisCall(f) = 1
                /\ <<"close", f>> \in Range(log) <=> handle[f] # None

C4_Witness ==
    /\ Finished("teardown") /\ result.raised = "none" /\ ~fault
    /\ handle["analytics_mongo"] = None
    /\ handle["analytics_redis"] # None
    /\ handle["authorization_android_redis"] = None
    /\ closes[handle["analytics_redis"]] = 1
    /\ Len(log) = 5

\* C5: a failing step of initialize makes initialize raise at that step: no
\* later step is attempted, the fields of the failed and the later steps
\* keep the value they had when the call began (absent on a fresh
\* registry), and the fields of the earlier steps hold the handles stored
\* by this call.
C5_InitializeStopsAtFailure ==
    (Finished("initialize") /\ fault)
    => /\ result.raised \in {"HookError", "ConnectError"}
       /\ \A g \in Fields :
             /\ Pos(g) > Pos(result.at) =>
                   <<"connect", g>> \notin Range(log)
             /\ Pos(g) >= Pos(result.at) =>
                   /\ handle[g] = snapshot.handle[g]
                   /\ calls.initialize = 1 => handle[g] = None
             /\ (Pos(g) < Pos(result.at)
                  /\ (g = "analytics_mongo" => initialize_mongo)) =>
                   StoredThisCall(g)

C5_Witness ==
    /\ Finished("initialize")
    /\ result.raised = "ConnectError"
    /\ result.at = "authorization_ios_redis"
    /\ calls.initialize = 1
    /\ initialize_mongo
    /\ handle["analytics_mongo"] # None
    /\ handle["analytics_redis"] # None
    /\ handle["authorization_ios_redis"] = None
    /\ handle["authorization_android_redis"] = None

\* C6 as stated: an accessor read after teardown has returned fails with the
\* uninitialized-access error.
C6_Original ==
    (/\ lastAccess.name # "-"
     /\ lastAccess.phase = "idle"
     /\ lastAccess.after.op = "teardown"
     /\ lastAccess.after.raised = "none")
    => lastAccess.raised = "RuntimeError"

\* C6 amended: teardown leaves every field as it was, so after teardown has
\* returned an accessor still returns the handle initialize stored, now
\* closed; it fails only for a field that was absent before teardown.
C6_AccessorAfterTeardown ==
    Finished("teardown") =>
       \A f \in Fields :
          /\ handle[f] = snapshot.handle[f]
          /\ snapshot.handle[f] # None =>
                /\ accessor(f) = [raised |-> "none",
                                  value |-> snapshot.handle[f]]
                /\ result.raised = "none" => closes[accessor(f).value] >= 1
          /\ snapshot.handle[f] = None => accessor(f).raised = "RuntimeError"

C6_Witness ==
    /\ Finished("teardown") /\ result.raised = "none"
    /\ lastAccess.name = "analytics_redis"
    /\ lastAccess.phase = "idle"
    /\ lastAccess.after.op = "teardown"
    /\ lastAccess.raised = "none"
    /\ lastAccess.value = handle["analytics_redis"]
    /\ closes[lastAccess.value] = 1

\* C7 as stated: over any sequence of initialize and teardown calls each
\* field is assigned at most once and each handle is closed at most once.
C7_Original ==
    /\ \A f \in Fields : assigned[f] <= 1
    /\ \A h \in HandleIds : closes[h] <= 1

\* C7 amended: while initialize has been called at most once each field has
\* been assigned at most once (so no stored handle was replaced), and while
\* teardown has been called at most once each handle has received at most
\* one close.
C7_OncePerLifecycle ==
    /\ calls.initialize <= 1 =>
          /\ \A f \in Fields : assigned[f] <= 1
          /\ \A f \in Fields :
                assigned[f] = 1 <=> (handle[f] # None)
          /\ \A f, g \in Fields :
                (f # g /\ handle[f] # None) => handle[f] # handle[g]
    /\ calls.teardown <= 1 => \A h \in HandleIds : closes[h] <= 1

C7_Witness ==
    /\ calls.initialize = 1 /\ calls.teardown = 1
    /\ Finished("teardown")
    /\ \A f \in Fields : assigned[f] = 1 /\ closes[handle[f]] = 1

\* C8: the steps of initialize run one at a time in the order base hook,
\* document store (only with initialize_mongo), analytics, iOS, Android
\* pool: a step starts only after the previous one has stored its handle,
\* at most one connection attempt is in flight, and a later broker handle
\* is never set while an earlier one is absent.
C8_InitializeSequential ==
    /\ Cardinality(inProgress) <= 1
    /\ LogOp = "initialize" =>
          /\ IsPrefix(log, ExpectedInit(initialize_mongo))
          /\ \A f \in Fields :
                <<"stored", f>> \in Range(log) <=> StoredThisCall(f)
          /\ pc[1] = "init_wait" => inProgress = {pc[2]}
          /\ pc[1] # "init_wait" => inProgress = {}
    /\ \A f, g \in Brokers :
          (Before(f, g) /\ handle[g] # None) => handle[f] # None

C8_Witness ==
    /\ pc = <<"init_wait", "authorization_android_redis">>
    /\ inProgress = {"authorization_android_redis"}
    /\ initialize_mongo
    /\ Len(log) = 9
    /\ handle["authorization_ios_redis"] # None
    /\ handle["authorization_android_redis"] = None

\* C9: teardown awaits the base hook and then closes the present handles in
\* the order document store, analytics, iOS, Android; a pool's close is
\* followed by its awaited closed confirmation before the next handle is
\* touched.
C9_TeardownOrder ==
    LogOp = "teardown" =>
       /\ IsPrefix(log, ExpectedTeardown(handle))
       /\ \A f \in Fields :
             /\ <<"close", f>> \in Range(log) <=> ClosesThisCall(f) = 1
             /\ <<"close", f>> \notin Range(log) <=> ClosesThisCall(f) = 0
       /\ (Finished("teardown") /\ result.raised = "none") =>
             log = ExpectedTeardown(handle)

C9_Witness ==
    /\ pc = <<"td_wait", "authorization_ios_redis">>
    /\ handle["analytics_mongo"] # None
    /\ Len(log) = 8
    /\ ClosesThisCall("analytics_redis") = 1
    /\ ClosesThisCall("authorization_ios_redis") = 1
    /\ ClosesThisCall("authorization_android_redis") = 0

\* C10: a failure of the base hook, of a close or of a closed confirmation
\* makes teardown raise at that step: the handles of the later steps get no
\* close in this call, the present handles of the earlier steps have been
\* closed.
C10_TeardownStopsAtFailure ==
    (Finished("teardown") /\ fault)
    => /\ result.raised \in {"HookError", "CloseError"}
       /\ \A g \in Fields :
             /\ Pos(g) > Pos(result.at) =>
                   /\ ClosesThisCall(g) = 0
                   /\ <<"close", g>> \notin Range(log)
                   /\ calls.teardown = 1 =>
                         (handle[g] # None => closes[handle[g]] = 0)
             /\ (Pos(g) < Pos(result.at) /\ handle[g] # None) =>
                   ClosesThisCall(g) = 1

C10_Witness ==
    /\ Finished("teardown")
    /\ result.raised = "CloseError"
    /\ result.at = "analytics_redis"
    /\ calls.teardown = 1
    /\ \A f \in Fields : handle[f] # None
    /\ closes[handle["analytics_mongo"]] = 1
    /\ closes[handle["analytics_redis"]] = 1
    /\ closes[handle["authorization_ios_redis"]] = 0
    /\ closes[handle["authorization_android_redis"]] = 0

====
